---------------------------- MODULE Spec2Model ----------------------------
(***************************************************************************)
(* Wordwave: a Wordle-style word guessing game.  Two variants live in the  *)
(* repository: the richer one (src/unnamed/part_000: six guesses, tiered   *)
(* scoring, persisted points and streak, hints painted on the board) and   *)
(* the simple one (src/guessing.js: flat scoring, no guess limit).  A      *)
(* string is modelled as a sequence of one-character strings.              *)
(***************************************************************************)
EXTENDS Integers, Sequences, FiniteSets, TLC

VARIABLES
    variant,        \* which script the page runs: "rich" or "simple"
    pc,             \* "loading" | "fetching" | "ready": page load and the fetch promise
    gameState,      \* the gameState object of the running script
    localStorage,   \* the browser's persistent store (keys 'points', 'streak')
    alert,          \* the open alert() dialog's message, NoAlert when none is open
    tiles,          \* the board row the latest handler painted (processGuess), else blank
    hintTile,       \* the tile the latest handler painted as a hint (buyHint), else none
    call            \* history: the handler that ran last, with the text it read

vars == <<variant, pc, gameState, localStorage, alert, tiles, hintTile, call>>

---------------------------------------------------------------------------
(* Program constants *)

MAX_GUESSES == 6
WORD_LENGTH == 5

HINT_COST == 5

(* Bounds of the exploration *)

\* the environment submits no winning guess that would lift points above this
MaxPoints == 8
\* the same for the simple script, whose points start at 0 in every session
MaxSimplePoints == 30
\* ... or lift streak above this
MaxStreak == 2
\* the same for the simple script, which needs three wins to afford five hints
MaxSimpleStreak == 3
\* the simple variant counts wrong guesses without limit; explored up to here
MaxSimpleGuesses == 7
\* the evaluation sweep draws target and guess over the first NumEvalLetters letters
NumEvalLetters == 4

---------------------------------------------------------------------------
(* Strings *)

\* a missing localStorage value (getItem returns null); no string equals it
null == <<"null">>
undefined == "undefined"
NoAlert == "(no alert)"

Range(s) == {s[i] : i \in DOMAIN s}

UpperLetters ==
    {"A","B","C","D","E","F","G","H","I","J","K","L","M",
     "N","O","P","Q","R","S","T","U","V","W","X","Y","Z"}

\* String.prototype.toUpperCase on one character (the lowercase letters the
\* modelled inputs use)
upperChar(c) ==
    CASE c = "a" -> "A"
      [] c = "c" -> "C"
      [] c = "e" -> "E"
      [] c = "l" -> "L"
      [] c = "n" -> "N"
      [] c = "p" -> "P"
      [] c = "r" -> "R"
      [] c = "v" -> "V"
      [] OTHER -> c

toUpperCase(s) == [i \in DOMAIN s |-> upperChar(s[i])]

isSpace(c) == c \in {" ", "\r", "\t"}

RECURSIVE trimStart(_)
trimStart(s) ==
    IF s # <<>> /\ isSpace(Head(s)) THEN trimStart(Tail(s)) ELSE s

RECURSIVE trimEnd(_)
trimEnd(s) ==
    IF s # <<>> /\ isSpace(s[Len(s)]) THEN trimEnd(SubSeq(s, 1, Len(s) - 1)) ELSE s

\* String.prototype.trim
trim(s) == trimEnd(trimStart(s))

\* guess.match(/^[A-Z]+$/)
matchesLetters(s) == s # <<>> /\ \A i \in DOMAIN s : s[i] \in UpperLetters

\* includes that takes an empty array to hold everything
includes_orEmpty(arr, x) == arr = <<>> \/ \E i \in DOMAIN arr : arr[i] = x

\* Array.prototype.includes
includes(arr, x) == \E i \in DOMAIN arr : arr[i] = x

\* s[i] of a string, 0-based as in the source; undefined out of range
charAt(s, i) == IF (i + 1) \in DOMAIN s THEN s[i + 1] ELSE undefined

\* Array.prototype.filter
RECURSIVE filterLength(_, _)
filterLength(arr, n) ==
    IF arr = <<>> THEN <<>>
    ELSE IF Len(Head(arr)) = n
         THEN <<Head(arr)>> \o filterLength(Tail(arr), n)
         ELSE filterLength(Tail(arr), n)

\* data.split('\n').map(word => word.trim().toUpperCase()).filter(length 5);
\* the text is given as its lines
parseWordList(lines) ==
    filterLength([i \in DOMAIN lines |-> toUpperCase(trim(lines[i]))], WORD_LENGTH)

(* Decimal strings: what localStorage holds *)

Digits == <<"0","1","2","3","4","5","6","7","8","9">>

digitValue(c) == CHOOSE d \in 0..9 : Digits[d + 1] = c

isDigit(c) == \E d \in 0..9 : Digits[d + 1] = c

\* String(n), as localStorage.setItem stores a number
RECURSIVE numberToString(_)
numberToString(n) ==
    IF n < 0 THEN <<"-">> \o numberToString(-n)
    ELSE IF n < 10 THEN <<Digits[n + 1]>>
    ELSE numberToString(n \div 10) \o <<Digits[(n % 10) + 1]>>

\* parseInt(s): an optional sign, then the value of the leading digits
RECURSIVE parseDigits(_, _)
parseDigits(s, acc) ==
    IF s = <<>> \/ ~isDigit(Head(s)) THEN acc
    ELSE parseDigits(Tail(s), acc * 10 + digitValue(Head(s)))

parseInt(s) ==
    IF s # <<>> /\ Head(s) = "-" THEN -parseDigits(Tail(s), 0) ELSE parseDigits(s, 0)

---------------------------------------------------------------------------
(* The environment: word list files, typed guesses, stored values *)

APPLE == <<"A","P","P","L","E">>
CRANE == <<"C","R","A","N","E">>
LEVEL == <<"L","E","V","E","L">>

\* contents of wordList.txt the fetch may deliver, as lines
WordFiles ==
    { << <<"a","p","p","l","e">>, <<"C","R","A","N","E"," ">>, <<"P","E","A","R">>,
         <<"l","e","v","e","l","\r">>, <<>> >>,
      << <<"P","E","A","R">>, <<>> >> }

\* values of the guess-input field when Enter is pressed
Inputs ==
    { <<"a","p","p","l","e">>,
      <<"C","R","A","N","E">>,
      <<"L","E","V","E","L">>,
      <<"C","R","A","N","E"," ">>,
      <<"A","P","P","1","E">>,
      <<"P","L","A","N","E">> }

\* what an earlier session may have left in localStorage
Stored ==
    { [points |-> null, streak |-> null],
      [points |-> <<"3","0">>, streak |-> <<"1">>] }

---------------------------------------------------------------------------
(* The richer variant: src/unnamed/part_000 *)

GREEN == "rgb(0, 122, 0)"
YELLOW == "rgb(255, 215, 0)"
GRAY == "gray"

Positions == 0 .. (WORD_LENGTH - 1)

\* The array revealedHintIndices is only pushed to, searched and replaced by []:
\* it is held as the number of times each index 0..4 has been pushed.
emptyArray == [i \in Positions |-> 0]
push(arr, i) == [arr EXCEPT ![i] = @ + 1]
arrayIncludes(arr, i) == arr[i] > 0
RECURSIVE sumFrom(_, _)
sumFrom(arr, i) == IF i >= WORD_LENGTH THEN 0 ELSE arr[i] + sumFrom(arr, i + 1)
length(arr) == sumFrom(arr, 0)

\* the gameState literal of the richer script
initialGameState ==
    [ wordToGuess |-> <<>>,
      guessCount |-> 0,
      greenLetters |-> {},
      yellowLetters |-> {},
      grayLetters |-> {},
      points |-> 0,
      revealedHintIndices |-> emptyArray,
      validWords |-> <<>>,
      streak |-> 0,
      gameOver |-> FALSE ]

blankTile == [innerText |-> "", backgroundColor |-> ""]
blankRow == [i \in 1..WORD_LENGTH |-> blankTile]
noHintTile == [index |-> -1, innerText |-> ""]

\* the mutable world a handler runs in; what it shows starts out empty
World ==
    [ gameState |-> gameState, localStorage |-> localStorage, alert |-> NoAlert,
      tiles |-> blankRow, hintTile |-> noHintTile ]

Commit(w) ==
    /\ gameState' = w.gameState
    /\ localStorage' = w.localStorage
    /\ alert' = w.alert
    /\ tiles' = w.tiles
    /\ hintTile' = w.hintTile

\* document.querySelector(`#game-board .row:nth-child(${guessCount + 1})`):
\* generateGameBoard builds MAX_GUESSES rows
rowExists(gs) == 1 <= gs.guessCount + 1 /\ gs.guessCount + 1 <= MAX_GUESSES

\* first pass: the positions whose letter matches the target exactly
exactMatches(wordToGuess, guess) ==
    {i \in Positions : charAt(wordToGuess, i) = charAt(guess, i)}

\* const letterCounts = {}; one count per letter of the target
letterCounts(wordToGuess) ==
    [l \in Range(wordToGuess) |->
        Cardinality({i \in DOMAIN wordToGuess : wordToGuess[i] = l})]

\* deductGreens with the deduction forgotten
deductGreens_skipped(counts, wordToGuess, guess) == counts

\* "Deduct green matches from available counts"
deductGreens(counts, wordToGuess, guess) ==
    [l \in DOMAIN counts |->
        counts[l] - Cardinality({i \in exactMatches(wordToGuess, guess) :
                                    charAt(guess, i) = l})]

\* available that only asks whether the target holds the letter
available_inTarget(counts, letter) == letter \in DOMAIN counts

\* letterCounts[letter] > 0, false for a letter the object does not hold
available(counts, letter) == letter \in DOMAIN counts /\ counts[letter] > 0

\* "Now mark yellows and grays": positions i .. WORD_LENGTH-1, left to right.
\* acc = [counts, colors, yellowLetters, grayLetters]
RECURSIVE markPass(_, _, _, _)
markPass(i, wordToGuess, guess, acc) ==
    IF i >= WORD_LENGTH THEN acc
    ELSE LET letter == charAt(guess, i) IN
         IF charAt(wordToGuess, i) = letter
         THEN markPass(i + 1, wordToGuess, guess, acc)
         ELSE IF available(acc.counts, letter)
         THEN markPass(i + 1, wordToGuess, guess,
                [acc EXCEPT !.colors[i + 1] = YELLOW,
                            !.yellowLetters = @ \cup {letter},
                            !.counts[letter] = @ - 1])
         ELSE markPass(i + 1, wordToGuess, guess,
                [acc EXCEPT !.colors[i + 1] = GRAY,
                            !.grayLetters = @ \cup {letter}])

\* isCorrect counting one position short
isCorrect_offByOne(correctCount) == correctCount >= WORD_LENGTH - 1

\* return { correct: correctCount === WORD_LENGTH }
isCorrect(correctCount) == correctCount = WORD_LENGTH

\* processGuess: paints the row, grows the three letter sets, reports correct
processGuess(gs, guess) ==
    IF ~rowExists(gs)
    THEN [correct |-> FALSE, gameState |-> gs, painted |-> FALSE, tiles |-> blankRow]
    ELSE
    LET target == gs.wordToGuess
        greens == exactMatches(target, guess)
        correctCount == Cardinality(greens)
        counts == deductGreens(letterCounts(target), target, guess)
        start == [ counts |-> counts,
                   colors |-> [i \in 1..WORD_LENGTH |->
                                 IF (i - 1) \in greens THEN GREEN ELSE ""],
                   yellowLetters |-> gs.yellowLetters,
                   grayLetters |-> gs.grayLetters ]
        done == markPass(0, target, guess, start)
    IN [ correct |-> isCorrect(correctCount),
         gameState |->
            [gs EXCEPT !.greenLetters = @ \cup {charAt(guess, i) : i \in greens},
                       !.yellowLetters = done.yellowLetters,
                       !.grayLetters = done.grayLetters],
         painted |-> TRUE,
         tiles |-> [i \in 1..WORD_LENGTH |->
                      [innerText |-> charAt(guess, i - 1),
                       backgroundColor |-> done.colors[i]]] ]

\* localStorage.setItem(key, number)
setItem(store, key, n) == [store EXCEPT ![key] = numberToString(n)]

\* updatePoints that changes the points in memory only
updatePoints_memoryOnly(w, score) ==
    [w EXCEPT !.gameState.points = @ + score]

updatePoints(w, score) ==
    LET p == w.gameState.points + score IN
    [w EXCEPT !.gameState.points = p,
              !.localStorage = setItem(w.localStorage, "points", p)]

updateStreak(w) ==
    LET s == w.gameState.streak + 1 IN
    [w EXCEPT !.gameState.streak = s,
              !.localStorage = setItem(w.localStorage, "streak", s)]

\* resetStreak that clears the stored streak only
resetStreak_storedOnly(w) ==
    [w EXCEPT !.localStorage = setItem(w.localStorage, "streak", 0)]

resetStreak(w) ==
    [w EXCEPT !.gameState.streak = 0,
              !.localStorage = setItem(w.localStorage, "streak", 0)]

\* pointsAwarded with the comparison strict
pointsAwarded_strict(guessCount) == IF guessCount < 2 THEN 6 ELSE 3

\* const pointsAwarded = gameState.guessCount <= 2 ? 6 : 3
pointsAwarded(guessCount) == IF guessCount <= 2 THEN 6 ELSE 3

\* handleWin that forgets to end the game
handleWin_notOver(w) ==
    LET w2 == updatePoints(w, pointsAwarded(w.gameState.guessCount))
        w3 == updateStreak(w2)
    IN [w3 EXCEPT !.alert = "Congratulations! You guessed the word"]

handleWin(w) ==
    LET w1 == [w EXCEPT !.gameState.gameOver = TRUE]
        w2 == updatePoints(w1, pointsAwarded(w1.gameState.guessCount))
        w3 == updateStreak(w2)
    IN [w3 EXCEPT !.alert = "Congratulations! You guessed the word"]

\* handleLoss that forgets to end the game
handleLoss_notOver(w) ==
    [resetStreak(w) EXCEPT !.alert = "Game over! The word was"]

handleLoss(w) ==
    LET w1 == [w EXCEPT !.gameState.gameOver = TRUE]
        w2 == resetStreak(w1)
    IN [w2 EXCEPT !.alert = "Game over! The word was"]

\* makeGuess with `raw` in the guess-input field
makeGuess(w, raw) ==
    IF w.gameState.gameOver
    THEN [w EXCEPT !.alert = "Game is over. Start a new game."]
    ELSE IF w.gameState.guessCount >= MAX_GUESSES
    THEN [w EXCEPT !.alert = "You've reached the maximum number of guesses."]
    ELSE
    LET guess == toUpperCase(raw) IN
    IF Len(guess) # WORD_LENGTH
    THEN [w EXCEPT !.alert = "Enter a 5 letter word."]
    ELSE IF ~matchesLetters(guess)
    THEN [w EXCEPT !.alert = "Word contains illegal characters"]
    ELSE IF ~includes(w.gameState.validWords, guess)
    THEN [w EXCEPT !.alert = "Word not in dictionary."]
    ELSE
    LET result == processGuess(w.gameState, guess)
        w1 == [w EXCEPT !.gameState = [result.gameState EXCEPT !.guessCount = @ + 1],
                        !.tiles = IF result.painted THEN result.tiles ELSE @]
    IN IF result.correct THEN handleWin(w1)
       ELSE IF w1.gameState.guessCount >= MAX_GUESSES THEN handleLoss(w1)
       ELSE w1

\* availableIndices that offers every index, revealed or not
RECURSIVE availableIndices_all(_, _)
availableIndices_all(revealed, i) ==
    IF i >= WORD_LENGTH THEN <<>> ELSE <<i>> \o availableIndices_all(revealed, i + 1)

\* the indices buyHint may still reveal, in ascending order
RECURSIVE availableIndices(_, _)
availableIndices(revealed, i) ==
    IF i >= WORD_LENGTH THEN <<>>
    ELSE IF arrayIncludes(revealed, i) THEN availableIndices(revealed, i + 1)
    ELSE <<i>> \o availableIndices(revealed, i + 1)

\* canAfford that only asks for some points
canAfford_anyPoints(points) == points > 0

\* if (gameState.points < 5) ... return
canAfford(points) == ~(points < HINT_COST)

\* buyHint without the gameOver check at its top
buyHint_ignoresGameOver(w, k) ==
    IF ~canAfford(w.gameState.points)
    THEN [w EXCEPT !.alert = "You don't have enough points to buy a hint. You need 5 points."]
    ELSE
    LET avail == availableIndices(w.gameState.revealedHintIndices, 0) IN
    IF Len(avail) = 0
    THEN [w EXCEPT !.alert = "All letters have been revealed as hints!"]
    ELSE
    LET randomIndex == avail[(k % Len(avail)) + 1]
        w1 == [w EXCEPT !.gameState.revealedHintIndices = push(@, randomIndex)]
        w2 == [w1 EXCEPT !.gameState.points = @ - HINT_COST,
                         !.localStorage = setItem(w1.localStorage, "points",
                                                  w1.gameState.points - HINT_COST)]
    IN [w2 EXCEPT !.hintTile =
            [index |-> randomIndex,
             innerText |-> charAt(w2.gameState.wordToGuess, randomIndex)]]

\* buyHint; k is Math.floor(Math.random() * availableIndices.length)
buyHint(w, k) ==
    IF w.gameState.gameOver
    THEN [w EXCEPT !.alert = "Game is over. Start a new game."]
    ELSE IF ~canAfford(w.gameState.points)
    THEN [w EXCEPT !.alert = "You don't have enough points to buy a hint. You need 5 points."]
    ELSE
    LET avail == availableIndices(w.gameState.revealedHintIndices, 0) IN
    IF Len(avail) = 0
    THEN [w EXCEPT !.alert = "All letters have been revealed as hints!"]
    ELSE
    LET randomIndex == avail[(k % Len(avail)) + 1]
        w1 == [w EXCEPT !.gameState.revealedHintIndices = push(@, randomIndex)]
        w2 == updatePoints(w1, -HINT_COST)
        hintLetter == charAt(w2.gameState.wordToGuess, randomIndex)
    IN [w2 EXCEPT !.hintTile = [index |-> randomIndex, innerText |-> hintLetter]]

\* newGame that keeps the hints revealed in the game before
newGame_keepsHints(w, k) ==
    LET gs == w.gameState
        valid == gs.validWords
    IN [w EXCEPT !.gameState =
            [gs EXCEPT !.guessCount = 0,
                       !.greenLetters = {},
                       !.yellowLetters = {},
                       !.grayLetters = {},
                       !.gameOver = FALSE,
                       !.wordToGuess = IF Len(valid) > 0
                                       THEN valid[(k % Len(valid)) + 1] ELSE @],
              !.tiles = blankRow]

\* newGame that leaves the three letter sets as they were
newGame_keepsLetters(w, k) ==
    LET gs == w.gameState
        valid == gs.validWords
    IN [w EXCEPT !.gameState =
            [gs EXCEPT !.guessCount = 0,
                       !.revealedHintIndices = emptyArray,
                       !.gameOver = FALSE,
                       !.wordToGuess = IF Len(valid) > 0
                                       THEN valid[(k % Len(valid)) + 1] ELSE @],
              !.tiles = blankRow]

\* newGame; k is Math.floor(Math.random() * validWords.length)
newGame(w, k) ==
    LET gs == w.gameState
        valid == gs.validWords
    IN [w EXCEPT !.gameState =
            [gs EXCEPT !.guessCount = 0,
                       !.greenLetters = {},
                       !.yellowLetters = {},
                       !.grayLetters = {},
                       !.revealedHintIndices = emptyArray,
                       !.gameOver = FALSE,
                       !.wordToGuess = IF Len(valid) > 0
                                       THEN valid[(k % Len(valid)) + 1] ELSE @],
              !.tiles = blankRow]

\* createKey testing the sets in the opposite order
createKey_reversed(gs, letter) ==
    IF letter \in gs.grayLetters THEN "key gray-key"
    ELSE IF letter \in gs.yellowLetters THEN "key yellow-key"
    ELSE IF letter \in gs.greenLetters THEN "key green-key"
    ELSE "key"

\* createKey: the class of the keyboard key of `letter`
createKey(gs, letter) ==
    IF letter \in gs.greenLetters THEN "key green-key"
    ELSE IF letter \in gs.yellowLetters THEN "key yellow-key"
    ELSE IF letter \in gs.grayLetters THEN "key gray-key"
    ELSE "key"

\* loadSavedData: points and streak from localStorage, when present
loadSavedData(w) ==
    LET savedPoints == w.localStorage["points"]
        savedStreak == w.localStorage["streak"]
        w1 == IF savedPoints # null
              THEN [w EXCEPT !.gameState.points = parseInt(savedPoints)] ELSE w
    IN IF savedStreak # null
       THEN [w1 EXCEPT !.gameState.streak = parseInt(savedStreak)] ELSE w1

\* fetchWordList, the .then chain on a response that is ok;
\* k is Math.floor(Math.random() * wordList.length)
fetchWordListThen(w, lines, k) ==
    LET wordList == parseWordList(lines) IN
    IF Len(wordList) = 0
    THEN [w EXCEPT !.alert = "Error loading word list. Using default word.",
                   !.gameState.wordToGuess = APPLE]
    ELSE [w EXCEPT !.gameState.validWords = wordList,
                   !.gameState.wordToGuess = wordList[(k % Len(wordList)) + 1]]

\* fetchWordList, the .catch handler (network error or response not ok)
fetchWordListCatch(w) ==
    [w EXCEPT !.alert = "Error loading word list. Using default word.",
              !.gameState.wordToGuess = APPLE]

---------------------------------------------------------------------------
(* The simple variant: src/guessing.js.  Its functions carry the prefix    *)
(* simple_ where the richer script has one of the same name.               *)

WIN_POINTS == 10

\* the gameState literal of the simple script
simple_initialGameState ==
    [ wordToGuess |-> <<>>,
      guessCount |-> 0,
      points |-> 0,
      streak |-> 0,
      greenLetters |-> {},
      yellowLetters |-> {},
      grayLetters |-> {},
      revealedHintIndices |-> {},
      validWords |-> <<>> ]

\* getRandomWord; k is Math.floor(Math.random() * validWords.length)
getRandomWord(gs, k) ==
    IF Len(gs.validWords) > 0 THEN gs.validWords[(k % Len(gs.validWords)) + 1]
    ELSE <<undefined>>

\* fetchWords after the awaits, response ok
fetchWordsOk(w, lines, k) ==
    LET w1 == [w EXCEPT !.gameState.validWords = parseWordList(lines)] IN
    IF Len(w1.gameState.validWords) = 0
    THEN [w1 EXCEPT !.alert = "Using default word: APPLE",
                    !.gameState.wordToGuess = APPLE]
    ELSE [w1 EXCEPT !.gameState.wordToGuess = getRandomWord(w1.gameState, k)]

\* fetchWords, the catch block when fetch rejects or the response is not ok
fetchWordsCatch(w) ==
    [w EXCEPT !.alert = "Using default word: APPLE",
              !.gameState.wordToGuess = APPLE]

\* validateGuess that checks the length only
validateGuess_lengthOnly(gs, guess) == Len(guess) = 5

validateGuess(gs, guess) ==
    ~(Len(guess) # 5 \/ ~includes(gs.validWords, guess))

RECURSIVE updateGameboard(_, _, _)
updateGameboard(gs, guess, i) ==
    IF i >= 5 THEN gs
    ELSE LET c == charAt(guess, i) IN
         IF c = charAt(gs.wordToGuess, i)
         THEN updateGameboard([gs EXCEPT !.greenLetters = @ \cup {c}], guess, i + 1)
         ELSE IF c \in Range(gs.wordToGuess)
         THEN updateGameboard([gs EXCEPT !.yellowLetters = @ \cup {c}], guess, i + 1)
         ELSE updateGameboard([gs EXCEPT !.grayLetters = @ \cup {c}], guess, i + 1)

resetGame(gs, k) ==
    [gs EXCEPT !.wordToGuess = getRandomWord(gs, k),
               !.guessCount = 0,
               !.greenLetters = {},
               !.yellowLetters = {},
               !.grayLetters = {},
               !.revealedHintIndices = {}]

checkWinCondition(w, guess, k) ==
    IF guess = w.gameState.wordToGuess
    THEN [w EXCEPT !.alert = "You guessed the word!",
                   !.gameState = resetGame([@ EXCEPT !.points = @ + WIN_POINTS,
                                                     !.streak = @ + 1], k)]
    ELSE [w EXCEPT !.gameState.guessCount = @ + 1]

\* makeGuess of the simple script; k is the random draw resetGame makes on a win
simple_makeGuess(w, raw, k) ==
    LET input == trim(toUpperCase(raw)) IN
    IF ~validateGuess(w.gameState, input)
    THEN [w EXCEPT !.alert = "Invalid word. Try again!"]
    ELSE checkWinCondition(
            [w EXCEPT !.gameState = updateGameboard(@, input, 0)], input, k)

\* updateKeyColors: the colour class the key of `letter` ends with
updateKeyColors(gs, letter) ==
    IF letter \in gs.greenLetters THEN "green"
    ELSE IF letter \in gs.yellowLetters THEN "yellow"
    ELSE IF letter \in gs.grayLetters THEN "gray"
    ELSE ""

\* [...Array(5).keys()].filter(i => !revealedHintIndices.has(i))
simple_availableIndices(revealed) ==
    LET RECURSIVE from(_)
        from(i) == IF i >= 5 THEN <<>>
                   ELSE IF i \in revealed THEN from(i + 1)
                   ELSE <<i>> \o from(i + 1)
    IN from(0)

\* simple_buyHint without the points check
simple_buyHint_noCheck(w, k) ==
    LET avail == simple_availableIndices(w.gameState.revealedHintIndices) IN
    IF Len(avail) = 0
    THEN [w EXCEPT !.alert = "No more hints available!"]
    ELSE [w EXCEPT !.gameState.revealedHintIndices = @ \cup {avail[(k % Len(avail)) + 1]},
                   !.gameState.points = @ - 5]

\* buyHint of the simple script; k is Math.floor(Math.random() * availableIndices.length)
simple_buyHint(w, k) ==
    IF w.gameState.points < 5
    THEN [w EXCEPT !.alert = "Not enough points!"]
    ELSE
    LET avail == simple_availableIndices(w.gameState.revealedHintIndices) IN
    IF Len(avail) = 0
    THEN [w EXCEPT !.alert = "No more hints available!"]
    ELSE [w EXCEPT !.gameState.revealedHintIndices = @ \cup {avail[(k % Len(avail)) + 1]},
                   !.gameState.points = @ - 5]

---------------------------------------------------------------------------
(* The state machine *)

Init ==
    /\ variant \in {"rich", "simple"}
    /\ pc = "loading"
    /\ gameState = IF variant = "rich" THEN initialGameState ELSE simple_initialGameState
    /\ localStorage \in
         IF variant = "rich"
         THEN Stored
         ELSE {[points |-> null, streak |-> null]}
    /\ alert = NoAlert
    /\ tiles = blankRow
    /\ hintTile = noHintTile
    /\ call = [name |-> "", input |-> <<>>]

Called(name, input) == call' = [name |-> name, input |-> input]

\* draws of Math.floor(Math.random() * n)
Draws(n) == 0 .. (IF n > 0 THEN n - 1 ELSE 0)

\* the environment keeps the explored counters within the bounds
WithinBounds(gain, maxPoints, maxStreak) ==
    /\ gameState.points + gain <= maxPoints
    /\ gameState.streak + 1 <= maxStreak

\* the DOMContentLoaded handler: initializeGame(); loadSavedData(); fetchWordList()
\* (simple script: builds gameState and calls fetchWords()); the fetch is pending
DOMContentLoaded ==
    /\ pc = "loading"
    /\ pc' = "fetching"
    /\ Commit(IF variant = "rich" THEN loadSavedData(World) ELSE World)
    /\ Called("DOMContentLoaded", <<>>)
    /\ UNCHANGED variant

\* the fetch promise resolves with an ok response carrying `lines`
FetchThen ==
    /\ variant = "rich" /\ alert = NoAlert /\ pc = "fetching"
    /\ \E lines \in WordFiles : \E k \in Draws(Len(parseWordList(lines))) :
          Commit(fetchWordListThen(World, lines, k))
    /\ Called("fetchWordList.then", <<>>)
    /\ pc' = "ready"
    /\ UNCHANGED variant

\* the fetch promise rejects, or the response is not ok
FetchCatch ==
    /\ variant = "rich" /\ alert = NoAlert /\ pc = "fetching"
    /\ Commit(fetchWordListCatch(World))
    /\ Called("fetchWordList.catch", <<>>)
    /\ pc' = "ready"
    /\ UNCHANGED variant

\* Enter pressed in the guess-input field
MakeGuess ==
    /\ variant = "rich" /\ alert = NoAlert /\ pc # "loading"
    /\ \E raw \in Inputs :
          /\ toUpperCase(raw) = gameState.wordToGuess => WithinBounds(6, MaxPoints, MaxStreak)
          /\ Commit(makeGuess(World, raw))
          /\ Called("makeGuess", raw)
    /\ UNCHANGED <<variant, pc>>

\* the hint button
BuyHint ==
    /\ variant = "rich" /\ alert = NoAlert /\ pc # "loading"
    /\ \E k \in Draws(Len(availableIndices(gameState.revealedHintIndices, 0))) :
          Commit(buyHint(World, k))
    /\ Called("buyHint", <<>>)
    /\ UNCHANGED <<variant, pc>>

\* the new-game button
NewGame ==
    /\ variant = "rich" /\ alert = NoAlert /\ pc # "loading"
    /\ \E k \in Draws(Len(gameState.validWords)) : Commit(newGame(World, k))
    /\ Called("newGame", <<>>)
    /\ UNCHANGED <<variant, pc>>

SimpleFetchOk ==
    /\ variant = "simple" /\ alert = NoAlert /\ pc = "fetching"
    /\ \E lines \in WordFiles : \E k \in Draws(Len(parseWordList(lines))) :
          Commit(fetchWordsOk(World, lines, k))
    /\ Called("fetchWords", <<>>)
    /\ pc' = "ready"
    /\ UNCHANGED variant

SimpleFetchCatch ==
    /\ variant = "simple" /\ alert = NoAlert /\ pc = "fetching"
    /\ Commit(fetchWordsCatch(World))
    /\ Called("fetchWords.catch", <<>>)
    /\ pc' = "ready"
    /\ UNCHANGED variant

SimpleMakeGuess ==
    /\ variant = "simple" /\ alert = NoAlert /\ pc # "loading"
    /\ \E raw \in Inputs : \E k \in Draws(Len(gameState.validWords)) :
          /\ trim(toUpperCase(raw)) = gameState.wordToGuess => WithinBounds(WIN_POINTS, MaxSimplePoints, MaxSimpleStreak)
          /\ gameState.guessCount < MaxSimpleGuesses
          /\ Commit(simple_makeGuess(World, raw, k))
          /\ Called("makeGuess", raw)
    /\ UNCHANGED <<variant, pc>>

SimpleBuyHint ==
    /\ variant = "simple" /\ alert = NoAlert /\ pc # "loading"
    /\ \E k \in Draws(Len(simple_availableIndices(gameState.revealedHintIndices))) :
          Commit(simple_buyHint(World, k))
    /\ Called("buyHint", <<>>)
    /\ UNCHANGED <<variant, pc>>

\* alert() blocks the page until the user closes the dialog
Dismiss ==
    /\ alert # NoAlert
    /\ alert' = NoAlert
    /\ Called("dismiss", <<>>)
    /\ UNCHANGED <<variant, pc, gameState, localStorage, tiles, hintTile>>

Next ==
    \/ DOMContentLoaded
    \/ Dismiss
    \/ FetchThen
    \/ FetchCatch
    \/ MakeGuess
    \/ BuyHint
    \/ NewGame
    \/ SimpleFetchOk
    \/ SimpleFetchCatch
    \/ SimpleMakeGuess
    \/ SimpleBuyHint

Spec == Init /\ [][Next]_vars

---------------------------------------------------------------------------
(* The evaluation sweep: processGuess on every target and guess over a     *)
(* small alphabet.  The word list held the two words and the first was     *)
(* drawn as the target; the guess is the first of a fresh game.            *)
(* processGuess only compares letters for equality, so the targets are     *)
(* taken up to renaming of letters: each new letter of a target is the     *)
(* next unused one of the alphabet.  The guesses are all words.            *)

Alphabet == <<"A","B","C","D","E","F","G","H">>
EvalLetters == {Alphabet[i] : i \in 1..NumEvalLetters}
EvalWords == [1..WORD_LENGTH -> EvalLetters]

letterIndex(c) == CHOOSE i \in DOMAIN Alphabet : Alphabet[i] = c

canonical(word) ==
    \A i \in DOMAIN word :
        letterIndex(word[i]) <= 1 + Cardinality({word[j] : j \in 1..(i - 1)})

EvalTargets == {T \in EvalWords : canonical(T)}

RANCH == <<"R","A","N","C","H">>

\* target and guess: the swept pairs, and CRANE with RANCH
EvalPairs == (EvalTargets \X EvalWords) \cup {<<CRANE, RANCH>>}

InitEval ==
    /\ variant = "rich"
    /\ pc = "ready"
    /\ \E p \in EvalPairs :
          gameState = [initialGameState EXCEPT !.wordToGuess = p[1],
                                               !.validWords = <<p[1], p[2]>>]
    /\ localStorage = [points |-> null, streak |-> null]
    /\ alert = NoAlert
    /\ tiles = blankRow
    /\ hintTile = noHintTile
    /\ call = [name |-> "", input |-> <<>>]

EvalGuess ==
    /\ gameState.guessCount = 0 /\ ~gameState.gameOver
    /\ Commit(makeGuess(World, gameState.validWords[2]))
    /\ Called("makeGuess", gameState.validWords[2])
    /\ UNCHANGED <<variant, pc>>

NextEval == EvalGuess

SpecEval == InitEval /\ [][NextEval]_vars

---------------------------------------------------------------------------
(* Properties *)

isRich == variant = "rich"

painted(row) == row # blankRow
guessText(row) == [i \in 1..WORD_LENGTH |-> row[i].innerText]

did(name) == call'.name = name

\* a makeGuess call of the richer script that got as far as processGuess
AcceptedGuess == did("makeGuess") /\ painted(tiles')

\* C1: in the richer variant a sixth accepted guess that misses the target ends
\* the game Lost (gameOver, guessCount = 6); an accepted guess equal to the
\* target ends it Won with guessCount = k, the number of that guess; no game
\* stays open with six guesses; and once the game is over every makeGuess is
\* rejected, changing nothing, and gameOver stays set until newGame.
C1_WinLoss ==
    [][ isRich =>
        /\ (AcceptedGuess /\ guessText(tiles') # gameState.wordToGuess
                /\ gameState.guessCount + 1 = MAX_GUESSES)
             => /\ gameState'.gameOver
                /\ gameState'.guessCount = MAX_GUESSES
                /\ alert' = "Game over! The word was"
        /\ (AcceptedGuess /\ guessText(tiles') = gameState.wordToGuess)
             => /\ gameState'.gameOver
                /\ gameState'.guessCount = gameState.guessCount + 1
                /\ gameState'.guessCount <= MAX_GUESSES
                /\ alert' = "Congratulations! You guessed the word"
        /\ ~gameState'.gameOver => gameState'.guessCount < MAX_GUESSES
        /\ (gameState.gameOver /\ did("makeGuess"))
             => /\ gameState' = gameState
                /\ ~painted(tiles')
                /\ alert' = "Game is over. Start a new game."
        /\ (gameState.gameOver /\ ~did("newGame")) => gameState'.gameOver
      ]_vars

\* the game was lost on the sixth guess
C1_Witness ==
    /\ isRich
    /\ gameState.gameOver
    /\ gameState.guessCount = MAX_GUESSES
    /\ alert = "Game over! The word was"
    /\ painted(tiles) /\ guessText(tiles) # gameState.wordToGuess

---------------------------------------------------------------------------

tagged(row, letter, colors) ==
    {i \in 1..WORD_LENGTH : row[i].innerText = letter /\ row[i].backgroundColor \in colors}

occurrences(word, letter) == {i \in DOMAIN word : word[i] = letter}

\* C2: for every target and guess, and every letter L, the number of positions
\* processGuess paints green or yellow for L is at most the number of
\* occurrences of L in the target.
C2_TagCount ==
    painted(tiles) =>
        \A l \in UpperLetters :
            Cardinality(tagged(tiles, l, {GREEN, YELLOW}))
                <= Cardinality(occurrences(gameState.wordToGuess, l))

\* a letter of the target painted gray because its occurrences were used up
C2_Witness ==
    /\ painted(tiles)
    /\ \E i \in 1..WORD_LENGTH :
          /\ tiles[i].backgroundColor = GRAY
          /\ tiles[i].innerText \in Range(gameState.wordToGuess)
          /\ tagged(tiles, tiles[i].innerText, {GREEN}) # {}

\* C3: processGuess paints all five positions green, and reports correct (the
\* first guess then wins the game), if and only if the guess equals the target.
C3_AllCorrectIffEqual ==
    painted(tiles) =>
        /\ (\A i \in 1..WORD_LENGTH : tiles[i].backgroundColor = GREEN)
              <=> guessText(tiles) = gameState.wordToGuess
        /\ gameState.gameOver <=> guessText(tiles) = gameState.wordToGuess

\* a guess that differs from the target in one position only
C3_Witness ==
    /\ painted(tiles)
    /\ Cardinality({i \in 1..WORD_LENGTH :
                      tiles[i].innerText # gameState.wordToGuess[i]}) = 1
    /\ ~gameState.gameOver

---------------------------------------------------------------------------

\* Unknown < Absent < Present < Correct
rankOf(class) ==
    CASE class \in {"key green-key", "green"} -> 3
      [] class \in {"key yellow-key", "yellow"} -> 2
      [] class \in {"key gray-key", "gray"} -> 1
      [] OTHER -> 0

rank(gs, letter) ==
    rankOf(IF isRich THEN createKey(gs, letter) ELSE updateKeyColors(gs, letter))

\* the letters in one of the three sets; every other letter is Unknown
classified(gs) == gs.greenLetters \cup gs.yellowLetters \cup gs.grayLetters

\* a new game starts: newGame, or the simple script's resetGame on a win
NewGameStarts ==
    IF isRich THEN did("newGame")
    ELSE did("makeGuess") /\ alert' = "You guessed the word!"

\* C4: within one game the classification shown for a letter never decreases
\* in rank; it goes back to Unknown only when a new game starts.
C4_RankMonotone ==
    [][ IF NewGameStarts
        THEN \A l \in UpperLetters : rank(gameState', l) = 0
        ELSE \A l \in classified(gameState) :
                rank(gameState', l) >= rank(gameState, l)
      ]_vars

\* a letter found Correct by one guess and put in grayLetters by a later one
C4_Witness ==
    /\ isRich
    /\ ~gameState.gameOver
    /\ \E l \in gameState.greenLetters :
          /\ l \in gameState.grayLetters
          /\ \E i \in 1..WORD_LENGTH :
                tiles[i].innerText = l /\ tiles[i].backgroundColor = GRAY
          /\ tagged(tiles, l, {GREEN}) = {}

---------------------------------------------------------------------------

\* the word list failed to load: the target is the default word and the
\* dictionary is empty
degraded ==
    /\ pc = "ready"
    /\ gameState.validWords = <<>>
    /\ gameState.wordToGuess = APPLE

\* C5: in degraded mode a submitted guess of five letters A-Z is accepted
\* without a dictionary check; in particular guessing APPLE wins the game.
C5_DegradedAccepts ==
    (degraded /\ call.name = "makeGuess"
        /\ Len(toUpperCase(call.input)) = WORD_LENGTH
        /\ matchesLetters(toUpperCase(call.input)))
      => /\ alert \notin {"Word not in dictionary.", "Invalid word. Try again!"}
         /\ (isRich /\ toUpperCase(call.input) = APPLE) => gameState.gameOver

---------------------------------------------------------------------------

\* C6: in both variants 0 <= guessCount <= MAX_GUESSES in every reachable state.
C6_GuessCountBounded ==
    gameState.guessCount >= 0 /\ gameState.guessCount <= MAX_GUESSES

---------------------------------------------------------------------------

\* the indices revealed so far are distinct and lie in 0..4
distinctHints(gs) ==
    IF isRich
    THEN \A i \in DOMAIN gs.revealedHintIndices :
            i \in Positions /\ gs.revealedHintIndices[i] <= 1
    ELSE gs.revealedHintIndices \subseteq Positions

numRevealed(gs) ==
    IF isRich THEN length(gs.revealedHintIndices)
    ELSE Cardinality(gs.revealedHintIndices)

isRevealed(gs, i) ==
    IF isRich THEN arrayIncludes(gs.revealedHintIndices, i)
    ELSE i \in gs.revealedHintIndices

NoHintsRemaining ==
    alert' = (IF isRich THEN "All letters have been revealed as hints!"
              ELSE "No more hints available!")

HintStateUnchanged ==
    /\ gameState'.points = gameState.points
    /\ gameState'.revealedHintIndices = gameState.revealedHintIndices

\* buyHint reveals no position twice and keeps the set within 0..4
C7_NoRepeat ==
    /\ distinctHints(gameState')
    /\ numRevealed(gameState') <= WORD_LENGTH
    /\ did("buyHint") =>
          \A i \in Positions :
              isRevealed(gameState, i) =>
                  gameState'.revealedHintIndices[i] = gameState.revealedHintIndices[i]

\* C7 as stated: no position is revealed twice, and with all five revealed a
\* buyHint with points >= 5 fails as NoHintsRemaining, leaving points and
\* revealedHintIndices unchanged.
C7_Original ==
    [][ /\ (IF isRich THEN C7_NoRepeat ELSE distinctHints(gameState'))
        /\ (did("buyHint") /\ numRevealed(gameState) = WORD_LENGTH
                /\ gameState.points >= HINT_COST)
             => NoHintsRemaining /\ HintStateUnchanged
      ]_vars

\* C7 amended: the same, for a buyHint made while the game is not over (the
\* richer script answers a finished game with "Game is over" first); points
\* and revealedHintIndices are unchanged either way.
C7_HintsDistinct ==
    [][ /\ (IF isRich THEN C7_NoRepeat ELSE distinctHints(gameState'))
        /\ (did("buyHint") /\ numRevealed(gameState) = WORD_LENGTH
                /\ gameState.points >= HINT_COST)
             => /\ HintStateUnchanged
                /\ (isRich /\ gameState.gameOver) \/ NoHintsRemaining
      ]_vars

\* all five positions revealed and a further buyHint turned down
C7_Witness ==
    /\ isRich
    /\ numRevealed(gameState) = WORD_LENGTH
    /\ gameState.points >= HINT_COST
    /\ call.name = "buyHint"
    /\ alert = "All letters have been revealed as hints!"

---------------------------------------------------------------------------

InsufficientPoints ==
    alert' = (IF isRich
              THEN "You don't have enough points to buy a hint. You need 5 points."
              ELSE "Not enough points!")

\* a buyHint call that ended without a message bought a hint
HintBought == did("buyHint") /\ alert' = NoAlert

HintPaid ==
    /\ gameState'.points = gameState.points - 5
    /\ numRevealed(gameState') = numRevealed(gameState) + 1
    /\ \E i \in Positions :
          /\ ~isRevealed(gameState, i) /\ isRevealed(gameState', i)
          /\ \A j \in Positions \ {i} :
                isRevealed(gameState', j) <=> isRevealed(gameState, j)

\* C8 as stated: with points < 5 buyHint fails as InsufficientPoints and
\* changes nothing; when it succeeds it deducts exactly 5 points and adds
\* exactly one position.
C8_Original ==
    [][ /\ (did("buyHint") /\ gameState.points < 5)
             => InsufficientPoints /\ gameState' = gameState
        /\ HintBought => HintPaid
      ]_vars

\* C8 amended: the same, with the failure reported as InsufficientPoints when
\* the game is not over (the richer script answers a finished game with
\* "Game is over" first); nothing changes either way.
C8_HintCost ==
    [][ /\ (did("buyHint") /\ gameState.points < 5)
             => /\ gameState' = gameState
                /\ localStorage' = localStorage
                /\ (isRich /\ gameState.gameOver) \/ InsufficientPoints
        /\ HintBought => HintPaid
      ]_vars

\* buyHint turned down with 3 points
C8_Witness ==
    /\ isRich
    /\ call.name = "buyHint"
    /\ gameState.points = 3
    /\ ~gameState.gameOver
    /\ alert = "You don't have enough points to buy a hint. You need 5 points."

---------------------------------------------------------------------------

\* C9: in the richer variant a win on the k-th accepted guess adds exactly 6
\* points if k <= 2 and exactly 3 otherwise, and adds exactly 1 to streak.
C9_WinPoints ==
    [][ (isRich /\ AcceptedGuess /\ guessText(tiles') = gameState.wordToGuess)
          => LET k == gameState.guessCount + 1 IN
             /\ gameState'.guessCount = k
             /\ gameState'.points = gameState.points + (IF k <= 2 THEN 6 ELSE 3)
             /\ gameState'.streak = gameState.streak + 1
      ]_vars

\* a win on the second guess, worth 6 points
C9_Witness ==
    /\ isRich
    /\ alert = "Congratulations! You guessed the word"
    /\ gameState.guessCount = 2
    /\ gameState.points = 6
    /\ gameState.streak = 1

---------------------------------------------------------------------------

\* C10: in the richer variant a loss (the sixth accepted guess, not the
\* target) sets streak to 0 and leaves points unchanged.
C10_LossResetsStreak ==
    [][ (isRich /\ AcceptedGuess /\ guessText(tiles') # gameState.wordToGuess
            /\ gameState.guessCount + 1 = MAX_GUESSES)
          => /\ gameState'.streak = 0
             /\ gameState'.points = gameState.points
             /\ localStorage'.points = localStorage.points
      ]_vars

\* a loss in a session that started with a saved streak of 1 and 30 points
C10_Witness ==
    /\ isRich
    /\ alert = "Game over! The word was"
    /\ gameState.streak = 0
    /\ gameState.points = 30

---------------------------------------------------------------------------

GameAlreadyOver == alert' = "Game is over. Start a new game."

\* C11: in the richer variant, once the game is over, buyHint fails with
\* "Game is over. Start a new game." whatever the points are, changing nothing;
\* and points and revealedHintIndices stay as they are on every step taken
\* while the game is over, until newGame is called.
C11_HintAfterGameOver ==
    [][ (isRich /\ gameState.gameOver) =>
        /\ did("buyHint") =>
              /\ GameAlreadyOver
              /\ gameState' = gameState
              /\ localStorage' = localStorage
              /\ hintTile' = noHintTile
        /\ ~did("newGame") => HintStateUnchanged /\ gameState'.gameOver
      ]_vars

\* a hint asked for after a game that ended with 25 points and one hint bought
C11_Witness ==
    /\ isRich
    /\ gameState.gameOver
    /\ gameState.points >= HINT_COST
    /\ numRevealed(gameState) = 1
    /\ call.name = "buyHint"
    /\ alert = "Game is over. Start a new game."

---------------------------------------------------------------------------

\* C12: newGame (in the simple script resetGame, which runs at the end of a
\* win) leaves guessCount = 0, the three letter sets empty, no hint revealed
\* and gameOver false, with a target taken from the dictionary when the
\* dictionary is not empty; it does not touch points or streak (in the simple
\* script they hold exactly what the win gave, 10 points and 1 streak more).
C12_NewGameResets ==
    [][ NewGameStarts =>
        /\ gameState'.guessCount = 0
        /\ classified(gameState') = {}
        /\ numRevealed(gameState') = 0
        /\ isRich => ~gameState'.gameOver
        /\ gameState'.validWords = gameState.validWords
        /\ Len(gameState.validWords) > 0
              => includes(gameState.validWords, gameState'.wordToGuess)
        /\ IF isRich
           THEN /\ gameState'.points = gameState.points
                /\ gameState'.streak = gameState.streak
                /\ localStorage' = localStorage
           ELSE /\ gameState'.points = gameState.points + WIN_POINTS
                /\ gameState'.streak = gameState.streak + 1
      ]_vars

\* newGame pressed in a game that was neither won nor lost (the saved streak
\* of 1 and 30 points less one hint are still there), with a dictionary loaded
C12_Witness ==
    /\ isRich
    /\ call.name = "newGame"
    /\ Len(gameState.validWords) > 0
    /\ gameState.streak = 1
    /\ gameState.points = 25
    /\ gameState.guessCount = 0
    /\ numRevealed(gameState) = 0

---------------------------------------------------------------------------

\* C13: in the richer variant gameOver is set exactly by an accepted guess
\* that equals the target or is the sixth of its game, and by nothing else:
\* no guess is accepted while it is set, so the guess that set it stays the
\* last accepted one, it is set at most once per game, and it is cleared only
\* by newGame, which starts the next game with guessCount = 0.  In every
\* state, guessCount = MAX_GUESSES implies gameOver.
C13_GameOverExact ==
    [][ isRich =>
        /\ gameState'.gameOver <=>
              IF did("newGame") THEN FALSE
              ELSE IF AcceptedGuess
                   THEN \/ guessText(tiles') = gameState.wordToGuess
                        \/ gameState'.guessCount = MAX_GUESSES
                   ELSE gameState.gameOver
        /\ AcceptedGuess =>
              /\ ~gameState.gameOver
              /\ gameState'.wordToGuess = gameState.wordToGuess
              /\ gameState'.guessCount = gameState.guessCount + 1
        /\ (~AcceptedGuess /\ ~did("newGame")) =>
              gameState'.guessCount = gameState.guessCount
        /\ did("newGame") => gameState'.guessCount = 0
        /\ (gameState.gameOver /\ ~did("newGame")) =>
              gameState'.wordToGuess = gameState.wordToGuess
        /\ gameState'.guessCount = MAX_GUESSES => gameState'.gameOver
      ]_vars

\* a game won on its third guess: gameOver is set with guessCount below six
C13_Witness ==
    /\ isRich
    /\ gameState.gameOver
    /\ gameState.guessCount = 3
    /\ painted(tiles) /\ guessText(tiles) = gameState.wordToGuess

---------------------------------------------------------------------------

\* the messages makeGuess gives when it turns a guess down
RejectionAlerts ==
    IF isRich
    THEN {"Game is over. Start a new game.",
          "You've reached the maximum number of guesses.",
          "Enter a 5 letter word.",
          "Word contains illegal characters",
          "Word not in dictionary."}
    ELSE {"Invalid word. Try again!"}

\* C14: in both variants a guess submitted while the word list is still being
\* fetched (neither loaded nor fallen back to the default word) is turned
\* down: no row is painted and guessCount, the letter sets, gameOver, points
\* and streak, in memory and in localStorage, are unchanged.
C14_GuessBeforeLoad ==
    [][ (pc = "fetching" /\ did("makeGuess")) =>
        /\ alert' \in RejectionAlerts
        /\ ~painted(tiles')
        /\ gameState' = gameState
        /\ localStorage' = localStorage
      ]_vars

\* CRANE typed while the fetch is pending
C14_Witness ==
    /\ isRich
    /\ pc = "fetching"
    /\ gameState.wordToGuess = <<>>
    /\ call = [name |-> "makeGuess", input |-> CRANE]
    /\ alert = "Word not in dictionary."

---------------------------------------------------------------------------

\* the number a later session would load from a key: a missing key reads as 0
persisted(value) == IF value = null THEN 0 ELSE parseInt(value)

\* C15: in the richer variant, once loadSavedData has run, the persisted value
\* of 'points' equals gameState.points and the persisted value of 'streak'
\* equals gameState.streak in every state, that is after every operation.
C15_Durable ==
    (isRich /\ pc # "loading") =>
        /\ persisted(localStorage.points) = gameState.points
        /\ persisted(localStorage.streak) = gameState.streak

\* a first session: a win worth 6 points, then a hint bought for 5
C15_Witness ==
    /\ isRich
    /\ gameState.points = 1
    /\ gameState.streak = 1
    /\ localStorage = [points |-> <<"1">>, streak |-> <<"1">>]
    /\ call.name = "buyHint"

---------------------------------------------------------------------------

\* C16: in both variants, in a session that starts with points >= 0 and
\* streak >= 0, points >= 0 and streak >= 0 in every reachable state.
C16_NonNegative ==
    gameState.points >= 0 /\ gameState.streak >= 0

\* the simple script: a win's 10 points spent on two hints, a third refused
C16_Witness ==
    /\ ~isRich
    /\ gameState.points = 0
    /\ gameState.streak = 1
    /\ Cardinality(gameState.revealedHintIndices) = 2
    /\ call.name = "buyHint"
    /\ alert = "Not enough points!"

---------------------------------------------------------------------------

\* The reference evaluation.  Position i is Correct iff guess[i] = target[i];
\* otherwise it is Present iff the occurrences of guess[i] in the target, less
\* all exact matches of that letter, less the Presents given to that letter
\* at earlier positions, leave more than 0; else Absent.
RECURSIVE refTag(_, _, _)
refTag(target, guess, i) ==
    IF guess[i] = target[i] THEN "Correct"
    ELSE LET l == guess[i]
             inTarget == Cardinality({j \in 1..WORD_LENGTH : target[j] = l})
             exact == Cardinality({j \in 1..WORD_LENGTH :
                                     guess[j] = l /\ target[j] = l})
             earlier == Cardinality({j \in 1..(i - 1) :
                                       guess[j] = l /\ refTag(target, guess, j) = "Present"})
         IN IF inTarget - exact - earlier > 0 THEN "Present" ELSE "Absent"

colourOf(tag) ==
    CASE tag = "Correct" -> GREEN
      [] tag = "Present" -> YELLOW
      [] tag = "Absent" -> GRAY

colours(row) == [i \in 1..WORD_LENGTH |-> row[i].backgroundColor]

\* C17: for every target and guess, the colour processGuess paints at each
\* position is the one the reference two-pass evaluation gives; target CRANE
\* with guess RANCH gives Present, Present, Present, Present, Absent.
C17_MatchesReference ==
    painted(tiles) =>
        /\ \A i \in 1..WORD_LENGTH :
              tiles[i].backgroundColor =
                  colourOf(refTag(gameState.wordToGuess, guessText(tiles), i))
        /\ (gameState.wordToGuess = CRANE /\ guessText(tiles) = RANCH)
              => colours(tiles) = <<YELLOW, YELLOW, YELLOW, YELLOW, GRAY>>

\* RANCH guessed against CRANE
C17_Witness ==
    /\ gameState.wordToGuess = CRANE
    /\ guessText(tiles) = RANCH
    /\ colours(tiles) = <<YELLOW, YELLOW, YELLOW, YELLOW, GRAY>>

---------------------------------------------------------------------------

\* the guess each script makes of the text of the input field
richGuess == [raw \in Inputs |-> toUpperCase(raw)]
simpleGuess == [raw \in Inputs |-> trim(toUpperCase(raw))]

\* five characters, all of them A-Z
wellFormed(guess) == Len(guess) = WORD_LENGTH /\ matchesLetters(guess)

richMalformed == {raw \in Inputs : ~wellFormed(richGuess[raw])}
simpleMalformed == {raw \in Inputs : ~wellFormed(simpleGuess[raw])}

\* the guess of the makeGuess step has to be turned down: the game is already
\* over, or the guess has not five characters, or has a character outside
\* A-Z, or is not in the dictionary
MustReject ==
    IF isRich
    THEN \/ gameState.gameOver
         \/ call'.input \in richMalformed
         \/ ~includes(gameState.validWords, richGuess[call'.input])
    ELSE \/ call'.input \in simpleMalformed
         \/ ~includes(gameState.validWords, simpleGuess[call'.input])

\* C18: in both variants a guess that has to be turned down is answered with
\* a message and changes nothing (guessCount, the letter sets, revealed hints,
\* gameOver, points, streak, the stored values); guessCount grows only by a
\* makeGuess that was not turned down, and then by exactly 1.
C18_RejectedNoChange ==
    [][ IF ~did("makeGuess")
        THEN gameState'.guessCount <= gameState.guessCount
        ELSE IF MustReject
        THEN /\ alert' \in RejectionAlerts
             /\ ~painted(tiles')
             /\ gameState' = gameState
             /\ localStorage' = localStorage
        ELSE \/ gameState'.guessCount = gameState.guessCount + 1
             \/ ~isRich /\ gameState'.guessCount = 0
                        /\ alert' = "You guessed the word!"
      ]_vars

\* APP1E typed after two accepted guesses
C18_Witness ==
    /\ isRich
    /\ ~gameState.gameOver
    /\ gameState.guessCount = 2
    /\ call = [name |-> "makeGuess", input |-> <<"A","P","P","1","E">>]
    /\ alert = "Word contains illegal characters"

---------------------------------------------------------------------------

\* C19: in the richer variant every buyHint that deducts 5 points and records
\* a position p shows the letter target[p] of a target of five letters that is
\* set; no hint is bought while the word list is still being fetched.
C19_HintShowsTargetLetter ==
    [][ (isRich /\ HintBought) =>
        /\ pc # "fetching"
        /\ Len(gameState.wordToGuess) = WORD_LENGTH
        /\ hintTile'.index \in Positions
        /\ hintTile'.innerText \in UpperLetters
        /\ hintTile'.innerText = charAt(gameState.wordToGuess, hintTile'.index)
      ]_vars

---------------------------------------------------------------------------

\* C20: in both variants, in every reachable state, every letter in
\* greenLetters or yellowLetters occurs in the current target, and every
\* letter that is in grayLetters and in neither of the other two sets (the
\* key is shown gray) does not occur in the current target.
C20_Truthful ==
    LET target == Range(gameState.wordToGuess) IN
    /\ gameState.greenLetters \cup gameState.yellowLetters \subseteq target
    /\ \A l \in gameState.grayLetters :
          rank(gameState, l) = 1 => l \notin target

\* the richer script put a letter of the target in grayLetters (its second
\* occurrence in a guess was painted gray) next to yellowLetters, and another
\* letter is gray only
C20_Witness ==
    /\ isRich
    /\ \E l \in gameState.grayLetters \cap gameState.yellowLetters :
          /\ l \in Range(gameState.wordToGuess)
          /\ l \notin gameState.greenLetters
    /\ \E l \in gameState.grayLetters : rank(gameState, l) = 1

===========================================================================
